---- MODULE Spec2Model ----
(***************************************************************************)
(* Model of the storyline designer page (src/index.tsx): two module-level  *)
(* session fields, the controls the handlers enable and disable, the modal *)
(* preview, and the two asynchronous model calls whose completions         *)
(* interleave with the user's clicks on the browser's event loop.          *)
(*                                                                         *)
(* Texts.  A game document is a sequence of one-character strings, so that *)
(* trim() and the fence-stripping regular expression are computed          *)
(* character by character.  The outline text is a sequence of the pieces   *)
(* the template literals concatenate.  null is the sequence Null, whose    *)
(* only element is a reserved token that no text contains.                 *)
(***************************************************************************)
EXTENDS Integers, Sequences, FiniteSets, Bags, TLC

VARIABLES
    heroNameInput,          \* heroNameInput.value
    themeSelect,            \* themeSelect.selectedIndex (1-based)
    regenBtn,               \* [disabled]
    makeGameBtn,            \* [disabled]
    snapshotDiv,            \* children of #snapshot
    outlineArticle,         \* children of #outline
    gameModal,              \* [display]  (gameModal.style.display)
    gameIframe,             \* [srcdoc]
    bodyOverflow,           \* document.body.style.overflow
    currentStorylineText,   \* string | null
    currentGameHtml,        \* string | null
    storylineCalls,         \* bag of generateStoryline invocations suspended at their await
    gameCalls,              \* bag of generateGame invocations suspended at their await
    last                    \* history: the handler that ran last and what it did

vars == <<heroNameInput, themeSelect, regenBtn, makeGameBtn, snapshotDiv,
          outlineArticle, gameModal, gameIframe, bodyOverflow,
          currentStorylineText, currentGameHtml, storylineCalls, gameCalls, last>>

dom == <<regenBtn, makeGameBtn, snapshotDiv, outlineArticle, gameModal,
         gameIframe, bodyOverflow>>
inputs == <<heroNameInput, themeSelect>>
session == <<currentStorylineText, currentGameHtml>>
calls == <<storylineCalls, gameCalls>>

----------------------------------------------------------------------------
(* Bounds *)

\* generateGame invocations that may be suspended at the same time
MaxGameCalls == 2

\* pieces a freeform response text is put together from (see CleanPieces)
MaxPieces == 6

----------------------------------------------------------------------------
(* Values *)

Null == <<"null">>

\* JavaScript truthiness of a (string | null): null and "" are falsy
Falsy(s) == s = Null \/ s = <<>>

\* the values the user can have typed into #heroName
HeroNames == {"", "Mira"}

\* the options of #themeSelect: value attribute and display text
Themes == << [value |-> "cyberpunk", text |-> "Cyberpunk"],
             [value |-> "fantasy", text |-> "High Fantasy"] >>

\* the character U+0060, which a TLA+ string cannot hold: "~" stands for it
Backtick == "~"
Fence == <<Backtick, Backtick, Backtick>>
HtmlTag == <<"h", "t", "m", "l">>
Whitespace == {" ", "\n"}

SetMin(S) == CHOOSE x \in S : \A y \in S : x <= y
SetMax(S) == CHOOSE x \in S : \A y \in S : x >= y

\* String.prototype.trim
trim(s) ==
    LET keep == {i \in 1..Len(s) : s[i] \notin Whitespace}
    IN  IF keep = {} THEN <<>> ELSE SubSeq(s, SetMin(keep), SetMax(keep))

\* whether pat occurs in s starting at index i
matchesAt(s, i, pat) ==
    /\ i >= 1
    /\ i + Len(pat) - 1 <= Len(s)
    /\ SubSeq(s, i, i + Len(pat) - 1) = pat

\* the replacement with the second alternative of the pattern left out
stripFence_LeadingOnly(s) ==
    LET lead == matchesAt(s, 1, Fence \o HtmlTag)
        from == IF lead THEN Len(Fence \o HtmlTag) + 1 ELSE 1
    IN  SubSeq(s, from, Len(s))

\* rawHtml.replace(/^```html|```$/g, ''): without the m flag ^ matches at the
\* start of the text only and $ at its end only; the scan is left to right and
\* a later match starts no earlier than the end of the one before it.
stripFence(s) ==
    LET lead   == matchesAt(s, 1, Fence \o HtmlTag)
        from   == IF lead THEN Len(Fence \o HtmlTag) + 1 ELSE 1
        tailAt == Len(s) - Len(Fence) + 1
        tail   == tailAt >= from /\ matchesAt(s, tailAt, Fence)
    IN  SubSeq(s, from, IF tail THEN tailAt - 1 ELSE Len(s))

\* lines 197-199: the artifact stored for a response text
cleanHtml(text) == stripFence(trim(text))

----------------------------------------------------------------------------
(* The structured response: JSON.parse and what is read from its result *)

\* JSON.parse throws a SyntaxError on this response text
NotJson == [syntaxError |-> TRUE]

\* a parsed object is a record holding the properties that are present
Chapter1 == [chapter |-> "Act I", description |-> "It begins."]
Outline1 == [title |-> "Neon Run", logline |-> "A courier runs.",
             snapshot |-> <<"Setting: the Sprawl">>, outline |-> <<Chapter1>>]
Outline2 == [Outline1 EXCEPT !.title = "Iron Vale"]

without(obj, key) == [k \in DOMAIN obj \ {key} |-> obj[k]]

\* the properties responseSchema (lines 25-47) lists as required
RequiredFields == {"title", "logline", "snapshot", "outline"}
RequiredItemFields == {"chapter", "description"}

\* parsed objects that lack one required property
LackingOutlines ==
    {without(Outline1, f) : f \in RequiredFields}
    \cup {[Outline1 EXCEPT !.outline = <<without(Chapter1, f)>>] : f \in RequiredItemFields}

satisfiesSchema(data) ==
    /\ RequiredFields \subseteq DOMAIN data
    /\ \A i \in 1..Len(data.outline) : RequiredItemFields \subseteq DOMAIN data.outline[i]

\* what the awaited structured call can deliver: a rejection, or a text that
\* parses to the given value
structuredResponses(values) ==
    {[ok |-> FALSE]} \cup {[ok |-> TRUE, json |-> j] : j \in values}

StoryResponses ==
    structuredResponses({NotJson, Outline1, Outline2, without(Outline1, "outline")})

\* the responses that lack a required property, next to one that lacks none
SchemaResponses == structuredResponses({Outline1} \cup LackingOutlines)

\* `${obj.key}`: a missing property reads undefined and prints "undefined"
interpolate(obj, key) == IF key \in DOMAIN obj THEN obj[key] ELSE "undefined"

\* el.textContent = obj.key: undefined is converted to the empty string
textContent(obj, key) == IF key \in DOMAIN obj THEN obj[key] ELSE ""

LoadingSnapshot == << [tag |-> "div", text |-> "Conjuring ideas..."] >>
LoadingOutline == << [tag |-> "div", text |-> "Weaving the narrative threads..."] >>
ErrorMessage ==
    << [tag |-> "p", text |-> "Sorry, an error occurred while generating the story. Please try again."] >>

RECURSIVE snapshotItems(_)
snapshotItems(items) ==
    IF items = <<>> THEN <<>>
    ELSE <<[tag |-> "li", text |-> Head(items)]>> \o snapshotItems(Tail(items))

RECURSIVE chapterElements(_)
chapterElements(chapters) ==
    IF chapters = <<>> THEN <<>>
    ELSE << [tag |-> "h5", text |-> textContent(Head(chapters), "chapter")],
            [tag |-> "p", text |-> textContent(Head(chapters), "description")] >>
         \o chapterElements(Tail(chapters))

\* updateUI(data), lines 69-99: the two containers as it leaves them, and
\* whether it threw (forEach of an undefined property is a TypeError)
updateUI(data) ==
    IF "snapshot" \notin DOMAIN data
    THEN [threw |-> TRUE, snapshotDiv |-> <<>>, outlineArticle |-> <<>>]
    ELSE LET list == <<[tag |-> "ul", text |-> ""]>> \o snapshotItems(data.snapshot)
             head == << [tag |-> "h3", text |-> textContent(data, "title")],
                        [tag |-> "h4", text |-> textContent(data, "logline")] >>
         IN  IF "outline" \notin DOMAIN data
             THEN [threw |-> TRUE, snapshotDiv |-> list, outlineArticle |-> head]
             ELSE [threw |-> FALSE, snapshotDiv |-> list,
                   outlineArticle |-> head \o chapterElements(data.outline)]

RECURSIVE snapshotLines(_)
snapshotLines(items) ==
    IF items = <<>> THEN <<>>
    ELSE <<"- ", Head(items), "\n">> \o snapshotLines(Tail(items))

RECURSIVE chapterLines(_)
chapterLines(chapters) ==
    IF chapters = <<>> THEN <<>>
    ELSE <<"\n", interpolate(Head(chapters), "chapter"), "\n",
           interpolate(Head(chapters), "description"), "\n">>
         \o chapterLines(Tail(chapters))

\* lines 141-149: the text handed to the game generation
storyText(data) ==
    <<"Title: ", interpolate(data, "title"), "\n",
      "Logline: ", interpolate(data, "logline"), "\n\n",
      "--- Snapshot ---\n">>
    \o snapshotLines(data.snapshot)
    \o <<"\n--- Story Outline ---\n">>
    \o chapterLines(data.outline)

----------------------------------------------------------------------------
(* Prompts *)

\* the outline prompt built with the option's display text instead of its value
storylinePrompt_ThemeLabel(heroValue, themeIndex) ==
    LET heroName == IF heroValue = "" THEN "the protagonist" ELSE heroValue
        theme == Themes[themeIndex].text
    IN  <<"Create a compelling storyline for an HTML5 browser game. Protagonist's Name: ",
          heroName, " Theme/Tone: ", theme, " Follow this structure: ...">>

\* lines 110-123
storylinePrompt(heroValue, themeIndex) ==
    LET heroName == IF heroValue = "" THEN "the protagonist" ELSE heroValue
        theme == Themes[themeIndex].value
    IN  <<"Create a compelling storyline for an HTML5 browser game. Protagonist's Name: ",
          heroName, " Theme/Tone: ", theme, " Follow this structure: ...">>

\* the game prompt built without the storyline
gamePrompt_StorylineLeftOut(storyline, themeIndex) ==
    LET theme == Themes[themeIndex].text
    IN  <<"You are an expert HTML5 game developer. ... **Storyline to Convert:** ">>
        \o <<" **Requirements:** ... reflect the story's tone: ", theme, " ... ">>

\* lines 174-189
gamePrompt(storyline, themeIndex) ==
    LET theme == Themes[themeIndex].text
    IN  <<"You are an expert HTML5 game developer. ... **Storyline to Convert:** ">>
        \o storyline
        \o <<" **Requirements:** ... reflect the story's tone: ", theme, " ... ">>

----------------------------------------------------------------------------
(* The freeform response *)

GameDoc == <<"<", "p", ">">>

\* what the awaited freeform call can deliver: a rejection, or a text
freeformResponses(texts) ==
    {[ok |-> FALSE]} \cup {[ok |-> TRUE, text |-> t] : t \in texts}

GameResponses == freeformResponses({GameDoc, Fence \o HtmlTag})

\* the pieces response texts are put together from when the cleaning itself
\* is explored: a fence, the language tag, a line break, a letter, one backtick
CleanPieces == {Fence, HtmlTag, <<"\n">>, <<"p">>, <<Backtick>>}

\* every text made of at most n pieces
RECURSIVE textsOf(_)
textsOf(n) ==
    IF n = 0 THEN {<<>>}
    ELSE LET shorter == textsOf(n - 1)
         IN  shorter \cup {t \o piece : t \in shorter, piece \in CleanPieces}

CleanResponses == freeformResponses(textsOf(MaxPieces))


----------------------------------------------------------------------------
(* Handlers *)

\* setLoadingState that forgets line 55 and leaves the regenerate control
\* enabled
setLoadingState_KeepsEnabled(isLoading, snapshotNow, outlineNow) ==
    [ regenBtn       |-> [disabled |-> FALSE],
      snapshotDiv    |-> IF isLoading THEN LoadingSnapshot ELSE snapshotNow,
      outlineArticle |-> IF isLoading THEN LoadingOutline ELSE outlineNow ]

\* setLoadingState(isLoading), lines 54-63, given the two containers' content:
\* the regenerate control and the containers as it leaves them
setLoadingState(isLoading, snapshotNow, outlineNow) ==
    [ regenBtn       |-> [disabled |-> isLoading],
      snapshotDiv    |-> IF isLoading THEN LoadingSnapshot ELSE snapshotNow,
      outlineArticle |-> IF isLoading THEN LoadingOutline ELSE outlineNow ]

\* The page after the script ran and DOMContentLoaded invoked generateStoryline
\* (line 244): that first invocation is suspended at its await.  The modal,
\* the preview and the body carry no inline style or content yet.
Init ==
    /\ heroNameInput \in HeroNames
    /\ themeSelect \in DOMAIN Themes
    /\ LET ui == setLoadingState(TRUE, <<>>, <<>>)
       IN  /\ regenBtn = ui.regenBtn
           /\ snapshotDiv = ui.snapshotDiv
           /\ outlineArticle = ui.outlineArticle
    /\ makeGameBtn = [disabled |-> TRUE]
    /\ gameModal = [display |-> ""]
    /\ gameIframe = [srcdoc |-> <<>>]
    /\ bodyOverflow = ""
    /\ currentStorylineText = Null
    /\ currentGameHtml = Null
    /\ storylineCalls = SetToBag({[prompt |-> storylinePrompt(heroNameInput, themeSelect)]})
    /\ gameCalls = EmptyBag
    /\ last = [op |-> "DOMContentLoaded"]

\* the user edits #heroName
TypeHeroName(name) ==
    /\ heroNameInput # name
    /\ heroNameInput' = name
    /\ last' = [op |-> "input"]
    /\ UNCHANGED <<themeSelect, dom, session, calls>>

\* the user picks another option of #themeSelect
SelectTheme(index) ==
    /\ themeSelect # index
    /\ themeSelect' = index
    /\ last' = [op |-> "input"]
    /\ UNCHANGED <<heroNameInput, dom, session, calls>>

\* history: every suspended generateGame invocation learns that another
\* handler has written a session field since it was invoked
overtake(suspended) ==
    LET mark(call) == [call EXCEPT !.overtaken = TRUE]
        marked == {mark(c) : c \in BagToSet(suspended)}
        copies(m) == LET from == {c \in BagToSet(suspended) : mark(c) = m}
                         RECURSIVE sum(_)
                         sum(S) == IF S = {} THEN 0
                                   ELSE LET c == CHOOSE x \in S : TRUE
                                        IN  suspended[c] + sum(S \ {c})
                     IN  sum(from)
    IN  [m \in marked |-> copies(m)]

\* generateStoryline up to its await (lines 104-133), on a click on regenBtn;
\* a disabled button dispatches no click
generateStoryline ==
    /\ ~regenBtn.disabled
    /\ LET ui == setLoadingState(TRUE, snapshotDiv, outlineArticle)
       IN  /\ regenBtn' = ui.regenBtn
           /\ snapshotDiv' = ui.snapshotDiv
           /\ outlineArticle' = ui.outlineArticle
    /\ makeGameBtn' = [disabled |-> TRUE]
    /\ currentStorylineText' = Null
    /\ currentGameHtml' = Null
    /\ storylineCalls' =
           storylineCalls (+) SetToBag({[prompt |-> storylinePrompt(heroNameInput, themeSelect)]})
    /\ last' = [op |-> "generateStoryline"]
    /\ gameCalls' = overtake(gameCalls)
    /\ UNCHANGED <<inputs, gameModal, gameIframe, bodyOverflow>>

\* generateStoryline from its await on (lines 135-158): the suspended
\* invocation `call` resumes with the given response
storylineResumes(call, response) ==
    /\ BagIn(call, storylineCalls)
    /\ storylineCalls' = storylineCalls (-) SetToBag({call})
    /\ LET \* the awaited call resolved and JSON.parse returned
           parsed == response.ok /\ response.json # NotJson
           \* the try block (lines 126-151) throws at the await, in
           \* JSON.parse or in updateUI, which has then written what it wrote
           ui     == IF parsed
                     THEN updateUI(response.json)
                     ELSE [threw |-> TRUE, snapshotDiv |-> snapshotDiv,
                           outlineArticle |-> outlineArticle]
           after  == setLoadingState(FALSE, ui.snapshotDiv,
                                     IF ui.threw THEN ErrorMessage ELSE ui.outlineArticle)
       IN  /\ regenBtn' = after.regenBtn
           /\ snapshotDiv' = after.snapshotDiv
           /\ outlineArticle' = after.outlineArticle
           /\ IF ui.threw
              THEN UNCHANGED <<currentStorylineText, makeGameBtn, gameCalls>>
              ELSE /\ currentStorylineText' = storyText(response.json)
                   /\ makeGameBtn' = [disabled |-> FALSE]
                   /\ gameCalls' = overtake(gameCalls)
           /\ last' = [op |-> "storylineResumes", response |-> response,
                       threw |-> ui.threw]
    /\ UNCHANGED <<inputs, gameModal, gameIframe, bodyOverflow, currentGameHtml>>

\* generateGame without its guard
noStoryline_GuardDropped == FALSE

\* the guard of generateGame, line 165
noStoryline == Falsy(currentStorylineText)

\* generateGame up to its await (lines 164-195), on a click on makeGameBtn
generateGame ==
    /\ ~makeGameBtn.disabled
    /\ IF noStoryline
       THEN /\ last' = [op |-> "generateGame", requested |-> FALSE, alert |-> TRUE]
            /\ UNCHANGED <<inputs, dom, session, calls>>
       ELSE /\ BagCardinality(gameCalls) < MaxGameCalls
            /\ makeGameBtn' = [disabled |-> TRUE]
            /\ currentGameHtml' = Null
            /\ gameCalls' =
                   overtake(gameCalls) (+)
                   SetToBag({[prompt |-> gamePrompt(currentStorylineText, themeSelect),
                              before |-> <<currentStorylineText, currentGameHtml>>,
                              overtaken |-> FALSE]})
            /\ last' = [op |-> "generateGame", requested |-> TRUE, alert |-> FALSE]
            /\ UNCHANGED <<inputs, regenBtn, snapshotDiv, outlineArticle, gameModal,
                           gameIframe, bodyOverflow, currentStorylineText, storylineCalls>>

\* generateGame from its await on (lines 197-211): the suspended invocation
\* `call` resumes with the given response
gameResumes(call, response) ==
    /\ BagIn(call, gameCalls)
    /\ IF response.ok
       THEN /\ gameCalls' = overtake(gameCalls (-) SetToBag({call}))
            /\ currentGameHtml' = cleanHtml(response.text)
            /\ gameIframe' = [srcdoc |-> currentGameHtml']
            /\ gameModal' = [display |-> "flex"]
            /\ bodyOverflow' = "hidden"
       ELSE /\ gameCalls' = gameCalls (-) SetToBag({call})
            /\ UNCHANGED <<currentGameHtml, gameIframe, gameModal, bodyOverflow>>
    /\ makeGameBtn' = [disabled |-> FALSE]
    /\ last' = [op |-> "gameResumes", response |-> response, threw |-> ~response.ok,
                alert |-> ~response.ok, before |-> call.before,
                overtaken |-> call.overtaken]
    /\ UNCHANGED <<inputs, regenBtn, snapshotDiv, outlineArticle, currentStorylineText,
                   storylineCalls>>

\* the guard of downloadGame, line 218
noGameHtml == Falsy(currentGameHtml)

\* downloadGame (lines 217-229), on a click on downloadGameBtn, which the page
\* never disables
downloadGame ==
    /\ last' = [op |-> "downloadGame", saved |-> ~noGameHtml,
                content |-> IF noGameHtml THEN <<>> ELSE currentGameHtml,
                before |-> <<currentStorylineText, currentGameHtml>>,
                afterClose |-> last.op = "closeModal" /\ last.afterGame]
    /\ UNCHANGED <<inputs, dom, session, calls>>

\* closeModal (lines 231-235), on a click on modalCloseBtn
closeModal ==
    /\ gameModal' = [display |-> "none"]
    /\ gameIframe' = [srcdoc |-> <<>>]
    /\ bodyOverflow' = "auto"
    /\ last' = [op |-> "closeModal",
                before |-> <<currentStorylineText, currentGameHtml>>,
                afterGame |-> last.op = "gameResumes" /\ ~last.threw]
    /\ UNCHANGED <<inputs, regenBtn, makeGameBtn, snapshotDiv, outlineArticle,
                   session, calls>>

Next ==
    \/ \E name \in HeroNames : TypeHeroName(name)
    \/ \E index \in DOMAIN Themes : SelectTheme(index)
    \/ generateStoryline
    \/ \E call \in BagToSet(storylineCalls), response \in StoryResponses :
           storylineResumes(call, response)
    \/ generateGame
    \/ \E call \in BagToSet(gameCalls), response \in GameResponses :
           gameResumes(call, response)
    \/ downloadGame
    \/ closeModal

Spec == Init /\ [][Next]_vars

\* The same handlers, with the structured call answering with objects that
\* lack a required property.
NextSchema ==
    \/ generateStoryline
    \/ \E call \in BagToSet(storylineCalls), response \in SchemaResponses :
           storylineResumes(call, response)
    \/ generateGame
    \/ \E call \in BagToSet(gameCalls), response \in freeformResponses({GameDoc}) :
           gameResumes(call, response)

SpecSchema == Init /\ [][NextSchema]_vars

\* The page with the first outline rendered and one generateGame invocation
\* suspended at its await: the state Spec reaches from Init by
\* storylineResumes with Outline1 and then generateGame.
InitClean ==
    /\ heroNameInput = ""
    /\ themeSelect = 1
    /\ regenBtn = [disabled |-> FALSE]
    /\ makeGameBtn = [disabled |-> TRUE]
    /\ snapshotDiv = updateUI(Outline1).snapshotDiv
    /\ outlineArticle = updateUI(Outline1).outlineArticle
    /\ gameModal = [display |-> ""]
    /\ gameIframe = [srcdoc |-> <<>>]
    /\ bodyOverflow = ""
    /\ currentStorylineText = storyText(Outline1)
    /\ currentGameHtml = Null
    /\ storylineCalls = EmptyBag
    /\ gameCalls = SetToBag({[prompt |-> gamePrompt(storyText(Outline1), 1),
                              before |-> <<storyText(Outline1), Null>>,
                              overtaken |-> FALSE]})
    /\ last = [op |-> "generateGame", requested |-> TRUE, alert |-> FALSE]

\* The suspended generateGame invocation resumes with any text of at most
\* MaxPieces pieces, or is rejected: each run stores cleanHtml of one text.
NextClean ==
    \E call \in BagToSet(gameCalls), response \in CleanResponses :
        gameResumes(call, response)

SpecClean == InitClean /\ [][NextClean]_vars

\* The two generations with every awaited call resolving or rejecting in the
\* end: the clicks are the user's and carry no fairness, the resumption of
\* each suspended invocation is weakly fair.
LiveStoryResponses == structuredResponses({Outline1})
LiveGameResponses == freeformResponses({GameDoc})

\* every record a suspended generateStoryline invocation can be
LiveStorylineCalls ==
    {[prompt |-> storylinePrompt(h, t)] : h \in HeroNames, t \in DOMAIN Themes}

\* every record a suspended generateGame invocation can be
LiveGameCalls ==
    {[prompt |-> gamePrompt(storyText(Outline1), t),
      before |-> <<storyText(Outline1), html>>,
      overtaken |-> o] :
        t \in DOMAIN Themes, html \in {Null, GameDoc}, o \in BOOLEAN}

storylineSettles(call) ==
    \E response \in LiveStoryResponses : storylineResumes(call, response)

gameSettles(call) ==
    \E response \in LiveGameResponses : gameResumes(call, response)

NextLive ==
    \/ generateStoryline
    \/ \E call \in BagToSet(storylineCalls) : storylineSettles(call)
    \/ generateGame
    \/ \E call \in BagToSet(gameCalls) : gameSettles(call)

SpecLive ==
    /\ Init
    /\ [][NextLive]_vars
    /\ \A call \in LiveStorylineCalls : WF_vars(storylineSettles(call))
    /\ \A call \in LiveGameCalls : WF_vars(gameSettles(call))


----------------------------------------------------------------------------
(* Claims about the session and its controls, checked under Spec *)

\* C1 (as claimed, its first clause): in every reachable state the make-game
\* control is disabled whenever currentStorylineText is absent.
C1_MakeGameDisabledWhileAbsent ==
    currentStorylineText = Null => makeGameBtn.disabled

\* C2 (as claimed): at most one generateGame invocation is suspended at its
\* await at any time.
C2_OneGameCallInFlight == BagCardinality(gameCalls) <= 1

\* C3: at most one generateStoryline invocation is suspended at its await at
\* any time, and while one is suspended the regenerate control is disabled.
C3_OneStorylineCallInFlight ==
    /\ BagCardinality(storylineCalls) <= 1
    /\ BagCardinality(storylineCalls) = 1 => regenBtn.disabled

\* C3 witness: a click on the regenerate control has started a generation
\* that is now suspended.
C3_Witness ==
    /\ last.op = "generateStoryline"
    /\ BagCardinality(storylineCalls) = 1
    /\ regenBtn.disabled

\* C4 (as claimed): when a game generation fails, both session fields hold
\* the values they held just before that make-game action was invoked (no
\* other handler having written them in between), a stored artifact included.
C4_FailureKeepsSession ==
    (last.op = "gameResumes" /\ last.threw /\ ~last.overtaken)
        => <<currentStorylineText, currentGameHtml>> = last.before

\* C5 (as claimed): when an outline generation fails, its handler ends with
\* the inline error rendered, the regenerate control enabled, both session
\* fields absent and the make-game control disabled.
C5_OutlineFailureOutcome ==
    (last.op = "storylineResumes" /\ last.threw)
        => /\ outlineArticle = ErrorMessage
           /\ ~regenBtn.disabled
           /\ currentStorylineText = Null
           /\ currentGameHtml = Null
           /\ makeGameBtn.disabled

\* C7: a game generation request is issued only in a step that starts with
\* currentStorylineText present; generateGame invoked with it absent issues
\* no request and changes neither session field nor the make-game control.
C7_RequestNeedsStoryline ==
    [][ /\ BagCardinality(gameCalls') > BagCardinality(gameCalls)
           => currentStorylineText # Null
        /\ (last'.op = "generateGame" /\ currentStorylineText = Null)
           => UNCHANGED <<currentStorylineText, currentGameHtml, makeGameBtn, gameCalls>>
      ]_vars

\* C7 witness: generateGame ran with currentStorylineText absent.
C7_Witness ==
    /\ last.op = "generateGame"
    /\ ~last.requested
    /\ currentStorylineText = Null

\* C8 (as claimed): the download action produces a file if and only if
\* currentGameHtml is present, the file holds exactly currentGameHtml, and
\* the action leaves both session fields as they were.
C8_DownloadIffArtifact ==
    last.op = "downloadGame"
        => /\ last.saved <=> currentGameHtml # Null
           /\ last.saved => last.content = currentGameHtml
           /\ <<currentStorylineText, currentGameHtml>> = last.before

\* C9 (as claimed): closing the modal hides it, empties the preview, restores
\* background scroll and leaves both session fields as they were; a download
\* right after closing the modal that followed a successful game generation
\* produces the artifact.
C9_ArtifactOutlivesModal ==
    /\ last.op = "closeModal"
           => /\ gameModal.display = "none"
              /\ gameIframe.srcdoc = <<>>
              /\ bodyOverflow = "auto"
              /\ <<currentStorylineText, currentGameHtml>> = last.before
    /\ (last.op = "downloadGame" /\ last.afterClose)
           => /\ last.saved
              /\ last.content = currentGameHtml


----------------------------------------------------------------------------
(* Claims about the structured response, checked under SpecSchema *)

\* C6 (as claimed): a response that is valid JSON but lacks a required
\* property ends generateStoryline in the error outcome, with
\* currentStorylineText absent and the make-game control disabled; only a
\* response with all required properties sets currentStorylineText.
C6_SchemaEnforced ==
    (last.op = "storylineResumes" /\ last.response.ok)
        => IF satisfiesSchema(last.response.json)
           THEN TRUE
           ELSE /\ last.threw
                /\ outlineArticle = ErrorMessage
                /\ currentStorylineText = Null
                /\ makeGameBtn.disabled

----------------------------------------------------------------------------
(* Claims about the freeform cleaning, checked under SpecClean *)

\* C10 (as claimed, its first clause): the cleaning is idempotent: cleaning
\* the stored artifact again yields the stored artifact.
C10_CleaningIdempotent ==
    (last.op = "gameResumes" /\ ~last.threw)
        => cleanHtml(currentGameHtml) = currentGameHtml


\* a response text that is a document between a leading fence with the html
\* tag and a trailing fence, a line break on either side of the document
C11_Wrapped(text, document) ==
    /\ document # <<>>
    /\ trim(document) = document
    /\ text = Fence \o HtmlTag \o <<"\n">> \o document \o <<"\n">> \o Fence

\* C11 (as claimed): for a response that is a document wrapped in a leading
\* fence tagged html and a trailing fence, with line breaks between markers
\* and document, the stored artifact is the document itself.
C11_WrappedDocumentStored ==
    (last.op = "gameResumes" /\ ~last.threw)
        => \A document \in textsOf(1) :
               C11_Wrapped(last.response.text, document)
                   => currentGameHtml = document


----------------------------------------------------------------------------
(* Claims about the prompts, checked under Spec *)

\* whether a prompt holds the given piece verbatim
C12_Contains(prompt, piece) == \E i \in DOMAIN prompt : prompt[i] = piece

\* what the outline prompt must hold for the given inputs: the theme value,
\* the hero name or the placeholder, and beside them only fixed text
C12_PromptFor(prompt, heroValue, themeIndex) ==
    LET hero == IF heroValue = "" THEN "the protagonist" ELSE heroValue
        theme == Themes[themeIndex].value
        fixed == {p[i] : p \in {storylinePrompt(h, t) : h \in HeroNames, t \in DOMAIN Themes},
                         i \in {1, 3, 5}}
    IN  /\ C12_Contains(prompt, theme)
        /\ C12_Contains(prompt, hero)
        /\ {prompt[i] : i \in DOMAIN prompt} \ {hero, theme} \subseteq fixed
        /\ Cardinality(fixed) = 3

\* C12: every outline request, the first one included, carries a prompt that
\* holds the theme value selected at that moment verbatim, the hero name
\* typed at that moment when there is one and 'the protagonist' when there
\* is none, and nothing else that varies.
C12_PromptHoldsInputs ==
    /\ \A call \in BagToSet(storylineCalls) :
           last.op = "DOMContentLoaded"
               => C12_PromptFor(call.prompt, heroNameInput, themeSelect)
    /\ [][ \A call \in BagToSet(storylineCalls') :
               CopiesIn(call, storylineCalls') > CopiesIn(call, storylineCalls)
                   => C12_PromptFor(call.prompt, heroNameInput, themeSelect) ]_vars

\* C12 witness: a regenerate click has sent a prompt with a typed hero name
\* and the second theme.
C12_Witness ==
    /\ last.op = "generateStoryline"
    /\ \E call \in BagToSet(storylineCalls) :
           /\ C12_Contains(call.prompt, "Mira")
           /\ C12_Contains(call.prompt, "fantasy")


\* whether a prompt holds the given text, piece by piece, in one stretch
C13_Embeds(prompt, text) == \E i \in DOMAIN prompt : matchesAt(prompt, i, text)

\* the prompts of the suspended invocations, each with the number of
\* invocations that sent it
C13_Prompts(suspended) ==
    LET prompts == {c.prompt : c \in BagToSet(suspended)}
        RECURSIVE sum(_)
        sum(S) == IF S = {} THEN 0
                  ELSE LET c == CHOOSE x \in S : TRUE
                       IN  suspended[c] + sum(S \ {c})
    IN  [p \in prompts |-> sum({c \in BagToSet(suspended) : c.prompt = p})]

\* C13: the request of every suspended game generation embeds the value
\* currentStorylineText had when the make-game action was invoked; starting
\* or finishing an outline generation meanwhile changes no request that was
\* sent; and the completion handler stores what the response alone decides
\* and leaves currentStorylineText as it is.
C13_RequestKeepsCapturedStoryline ==
    /\ [](\A call \in BagToSet(gameCalls) :
             /\ call.before[1] # Null
             /\ C13_Embeds(call.prompt, call.before[1]))
    /\ [][ /\ last'.op \in {"generateStoryline", "storylineResumes"}
              => C13_Prompts(gameCalls') = C13_Prompts(gameCalls)
           /\ last'.op = "gameResumes"
              => /\ currentStorylineText' = currentStorylineText
                 /\ ~last'.threw => currentGameHtml' = cleanHtml(last'.response.text)
         ]_vars

\* C13 witness: while a game generation is suspended, a regenerate has
\* replaced currentStorylineText by another outline.
C13_Witness ==
    \E call \in BagToSet(gameCalls) :
        /\ currentStorylineText # Null
        /\ currentStorylineText # call.before[1]


----------------------------------------------------------------------------
(* Further claims about the freeform cleaning, checked under SpecClean *)

\* a response text that, trimmed, opens with a fence that carries no html tag
\* and closes with another fence
C14_FencedUntagged(text) ==
    LET t == trim(text)
    IN  /\ Len(t) >= Len(Fence) + Len(Fence)
        /\ matchesAt(t, 1, Fence)
        /\ ~matchesAt(t, 1, Fence \o HtmlTag)
        /\ matchesAt(t, Len(t) - Len(Fence) + 1, Fence)

\* C14 (as claimed): a response fenced without a language tag is stored as
\* the trimmed response, both fence markers still in place.
C14_UntaggedFencePassesThrough ==
    (last.op = "gameResumes" /\ ~last.threw /\ C14_FencedUntagged(last.response.text))
        => currentGameHtml = trim(last.response.text)

\* C14 (amended): a response fenced without a language tag is stored as the
\* trimmed response with its leading fence marker still in place and its
\* trailing fence marker removed.
C14_UntaggedFenceLosesClosingMarker ==
    (last.op = "gameResumes" /\ ~last.threw /\ C14_FencedUntagged(last.response.text))
        => LET t == trim(last.response.text)
           IN  /\ currentGameHtml = SubSeq(t, 1, Len(t) - Len(Fence))
               /\ matchesAt(currentGameHtml, 1, Fence)

\* C14 witness: a response fenced without a tag around a one-letter document
\* has been stored.
C14_Witness ==
    /\ last.op = "gameResumes"
    /\ ~last.threw
    /\ last.response.text = Fence \o <<"\n", "p", "\n">> \o Fence


----------------------------------------------------------------------------
(* Claims about progress, checked under SpecLive *)

\* C15 (as claimed): with every model call resolving in the end, the system
\* always eventually reaches a state with no call in flight, the regenerate
\* control enabled, and the make-game control enabled if a game generation
\* was the last to finish.
C15_AlwaysEventuallyQuiet ==
    []<>( /\ storylineCalls = EmptyBag
          /\ gameCalls = EmptyBag
          /\ ~regenBtn.disabled
          /\ last.op = "gameResumes" => ~makeGameBtn.disabled )

\* every suspended invocation is one of the records the fairness ranges over
LiveCallsCovered ==
    /\ BagToSet(storylineCalls) \subseteq LiveStorylineCalls
    /\ BagToSet(gameCalls) \subseteq LiveGameCalls

\* the outline generation alone does come to rest again and again
OutlineAlwaysEventuallyQuiet ==
    []<>(storylineCalls = EmptyBag /\ ~regenBtn.disabled)


----------------------------------------------------------------------------
(* Claims about the session's two fields together, checked under Spec *)

\* C16 (as claimed): in every reachable state, if currentGameHtml is present
\* then currentStorylineText is present, and the artifact a game generation
\* has just stored was made from a request that embedded that same
\* currentStorylineText (the invocation's captured storyline, call.before[1]);
\* a regenerate never leaves an artifact of an earlier outline in the session.
C16_ArtifactOfCurrentStoryline ==
    /\ ~Falsy(currentGameHtml) => ~Falsy(currentStorylineText)
    /\ (last.op = "gameResumes" /\ ~last.threw /\ ~Falsy(currentGameHtml))
           => currentStorylineText = last.before[1]

\* C17 (as claimed): in every reachable state in which the modal is open,
\* currentGameHtml is present (an empty document counted as present) and the
\* preview surface's content equals currentGameHtml, so a download from the
\* open modal saves the game shown.
C17_OpenModalShowsArtifact ==
    gameModal.display = "flex"
        => /\ currentGameHtml # Null
           /\ gameIframe.srcdoc = currentGameHtml

====
